---- MODULE Spec2Model ----
(***************************************************************************)
(* The interactive chat loop of src/chatbot.py: a two-node LangGraph       *)
(* (chatbot, tools) compiled with a MemorySaver checkpointer and driven by *)
(* a console read-eval-print loop.  The graph library's execution rules    *)
(* (supersteps, the add_messages reducer, tools_condition, ToolNode,       *)
(* stream_mode="values", the default recursion limit) are modelled as the  *)
(* library performs them for the calls the program makes.                  *)
(***************************************************************************)
EXTENDS Integers, Sequences, FiniteSets, TLC

VARIABLES
    pc,          \* position of the process: "input", "chatbot", "tools", "done", "exited", "crashed"
    inFallback,  \* TRUE once the except block (lines 104-109) has been entered
    turns,       \* turns started from a line read at line 98
    step,        \* supersteps of the running graph.stream call that have been applied
    messages,    \* state["messages"] of the running loop (the working copy)
    memory,      \* the MemorySaver: thread_id -> checkpointed messages
    running,     \* outcomes of the latest tools superstep, in order of completion
    stdout,      \* the lines written by print
    nextId,      \* next fresh message id (uuid4 / provider id)
    nextCall,    \* next fresh tool-call id issued by the model
    log,         \* history: every message handed to the reducer since process start
    prior,       \* history: the previous run of the process left messages in its store
    prompt       \* the messages handed to llm_with_tools.invoke by the call in flight

vars == <<pc, inFallback, turns, step, messages, memory, running, stdout, nextId, nextCall,
          log, prior, prompt>>

----------------------------------------------------------------------------
(* Bounds of the model *)

MaxTurns == 2
\* what one thread may hold beyond plain rounds of one search: every tool call
\* after the first of a response, every call of an unregistered name and
\* every call that raises counts one; a user line other than the plain one
\* takes all of it
MaxIrregular == 1
\* the model, the tool and the failures act freely in the first RichSteps
\* supersteps of a turn; after them the model asks for one search per response
\* and nothing fails, until in the last superstep the library allows the model
\* may also give its answer
RichSteps == 3

----------------------------------------------------------------------------
(* Program constants *)

START == "__start__"
END == "__end__"

\* config = {"configurable": {"thread_id": "1"}}
ThreadId == "1"
ThreadIds == {"1"}

\* config sets no "recursion_limit": the library default applies
RecursionLimit == 25

\* the one registered tool, and a name the registry does not hold
SearchTool == "tavily_search_results_json"
UnknownTool == "calculator"
tools == {SearchTool}

FallbackQuestion == "What do you know about LangGraph?"

\* lines the console may deliver, and what str.lower() makes of each
PlainLine == "hi"
InputLines == {PlainLine, "quit ", "q", "Q", "quit", "QUIT", "Exit", "eXiT"}

\* str.lower() read as leaving every letter as it is
LowerKeepsCase(line) == line

Lower(line) ==
    CASE line = "Q" -> "q"
      [] line = "QUIT" -> "quit"
      [] line = "Exit" -> "exit"
      [] line = "eXiT" -> "exit"
      [] OTHER -> line
QuitWords == {"quit", "exit", "q"}

----------------------------------------------------------------------------
(* Messages *)

Last(s) == s[Len(s)]

IsPrefix(s, t) == Len(s) <= Len(t) /\ SubSeq(t, 1, Len(s)) = s

HumanMessage(text) ==
    [role |-> "user", id |-> 0, content |-> text, tool_calls |-> <<>>,
     tool_call_id |-> 0, status |-> "none"]

AIMessage(text, calls) ==
    [role |-> "assistant", id |-> 0, content |-> text, tool_calls |-> calls,
     tool_call_id |-> 0, status |-> "none"]

ToolMessage(text, call_id, st) ==
    [role |-> "tool", id |-> 0, content |-> text, tool_calls |-> <<>>,
     tool_call_id |-> call_id, status |-> st]

\* messages without an id are given a fresh one before merging
WithIds(right, base) ==
    [i \in DOMAIN right |->
        IF right[i].id = 0 THEN [right[i] EXCEPT !.id = base + i - 1] ELSE right[i]]

RECURSIVE Merge(_, _)
Merge(left, right) ==
    IF right = <<>> THEN left
    ELSE LET m == Head(right)
             hit == {i \in DOMAIN left : left[i].id = m.id}
         IN Merge(IF hit # {} THEN [left EXCEPT ![CHOOSE i \in hit : TRUE] = m]
                               ELSE Append(left, m),
                  Tail(right))

\* a state key without a reducer: the update overwrites the list
overwrite_messages(left, right) == right

\* the reducer of State.messages: update by id, otherwise append
add_messages(left, right) == Merge(left, right)

----------------------------------------------------------------------------
(* Checkpointer *)

EmptyStore == [t \in ThreadIds |-> <<>>]

\* a new process keeps what the previous one had stored
DurableSaver(old) == old

\* memory = MemorySaver(): a store in process memory, empty in every process
MemorySaver(old) == EmptyStore

\* a turn that starts from nothing
LoadNothing(store, thread_id) == <<>>

Load(store, thread_id) == store[thread_id]

\* a graph compiled without a checkpointer: nothing is written
SaveNothing(store, thread_id, msgs) == store

Save(store, thread_id, msgs) == [store EXCEPT ![thread_id] = msgs]

----------------------------------------------------------------------------
(* Graph wiring *)

edges == {<<START, "chatbot">>, <<"tools", "chatbot">>, <<"chatbot", END>>}

tools_condition_always(msgs) == "tools"

\* tools_condition: "tools" when the last message carries tool calls
tools_condition(msgs) ==
    IF Len(Last(msgs).tool_calls) > 0 THEN "tools" ELSE END

\* a path map that sends the "tools" branch back to the chatbot
path_map_chatbot(key) == IF key = "tools" THEN "chatbot" ELSE END

path_map(key) == IF key = "tools" THEN "tools" ELSE END

\* an edge to END read as "stop the run here"
NextNodesEndWins(node, msgs) ==
    IF <<node, END>> \in edges THEN {}
    ELSE {e[2] : e \in {d \in edges : d[1] = node}}

\* the nodes triggered after `node` wrote: every static edge and, for the
\* chatbot, the branch chosen by tools_condition; an edge to END triggers nothing
NextNodes(node, msgs) ==
    ({e[2] : e \in {d \in edges : d[1] = node}}
        \cup (IF node = "chatbot" THEN {path_map(tools_condition(msgs))} ELSE {}))
    \ {END}

Route(node, msgs) ==
    LET next == NextNodes(node, msgs)
    IN IF next = {} THEN "done" ELSE CHOOSE n \in next : TRUE

----------------------------------------------------------------------------
(* Model and tool collaborators *)

\* the shapes of tool_calls a model response may carry: the requested names
MaxCalls == MaxIrregular + 1
ToolCallShapes == UNION {[1..k -> {SearchTool, UnknownTool}] : k \in 0..MaxCalls}

Names(calls) == [i \in DOMAIN calls |-> calls[i].name]

\* the calls of a response beyond its first, and its calls of unregistered names
Weight(names) ==
    Cardinality({i \in DOMAIN names : i >= 2})
        + Cardinality({i \in DOMAIN names : names[i] \notin tools})

Calls(msgs) == UNION {{<<i, j>> : j \in DOMAIN msgs[i].tool_calls} : i \in DOMAIN msgs}

OddRequests(msgs) ==
    Cardinality({p \in Calls(msgs) : p[2] >= 2})
        + Cardinality({p \in Calls(msgs) : msgs[p[1]].tool_calls[p[2]].name \notin tools})

ExecError == "Error: the tool raised"
InvalidTool == "Error: not a valid tool"
SearchResults == "search results"

ToolFailures(msgs) ==
    Cardinality({i \in DOMAIN msgs : msgs[i].role = "tool" /\ msgs[i].content = ExecError})

\* the user messages that are neither the plain line nor the fallback question
OddLines(msgs) ==
    Cardinality({i \in DOMAIN msgs :
        msgs[i].role = "user" /\ msgs[i].content \notin {PlainLine, FallbackQuestion}})

\* a line other than the plain one is read only on a thread that is plain
\* otherwise, and the thread stays so
LineWeight(line) == IF line = PlainLine THEN 0 ELSE MaxIrregular

Irregular(msgs) == OddRequests(msgs) + ToolFailures(msgs) + MaxIrregular * OddLines(msgs)

Failed(done) == Cardinality({j \in DOMAIN done : done[j].outcome = "error"})

\* what running one requested call can come to: the tool returns ("ok"), the
\* tool raises ("error"), the name is not registered ("invalid")
ToolOutcomes(name) == IF name \in tools THEN {"ok", "error"} ELSE {"invalid"}

handle_tool_errors_off == FALSE

\* ToolNode(tools=[tool]) leaves handle_tool_errors at its default
handle_tool_errors == TRUE

\* looking up an unregistered name raises
EscapesUnknown(outcome) == outcome = "invalid" \/ (outcome = "error" /\ ~handle_tool_errors)

\* does an outcome leave the node as an exception
Escapes(outcome) == outcome = "error" /\ ~handle_tool_errors

\* a tool message that does not name the call it answers
ToolResultUnlinked(call, outcome) == ToolMessage(SearchResults, 0, "success")

\* ToolNode turns every outcome of a call into a tool message for that call
ToolResult(call, outcome) ==
    CASE outcome = "ok" -> ToolMessage(SearchResults, call.id, "success")
      [] outcome = "error" -> ToolMessage(ExecError, call.id, "error")
      [] OTHER -> ToolMessage(InvalidTool, call.id, "error")

\* results collected as the calls complete
ToolNodeOutputAsCompleted(calls, done) ==
    [j \in DOMAIN done |-> ToolResult(calls[done[j].idx], done[j].outcome)]

\* ToolNode collects its results in the order of the requests
ToolNodeOutput(calls, done) ==
    [i \in DOMAIN calls |->
        ToolResult(calls[i], (CHOOSE d \in {done[j] : j \in DOMAIN done} : d.idx = i).outcome)]

----------------------------------------------------------------------------
(* The loop *)

Line(label, text) == [label |-> label, content |-> text]

\* a model call that is handed the latest message only
chatbot_input_last(state_messages) == <<Last(state_messages)>>

\* chatbot(state), line 47: llm_with_tools.invoke(state["messages"])
chatbot_input(state_messages) == state_messages

\* what the node triggered next is handed, if it is the chatbot
Handed(next, state_messages) ==
    IF next = "chatbot" THEN chatbot_input(state_messages) ELSE <<>>

\* graph.stream({"messages": [("user", text)]}, config, stream_mode="values")
\* up to the first model call: load the thread, apply the input, save, print
StartStream(store, out, ids, lg, done, text) ==
    LET w == WithIds(<<HumanMessage(text)>>, ids)
        new == add_messages(Load(store, ThreadId), w)
    IN /\ messages' = new
       /\ memory' = Save(store, ThreadId, new)
       /\ stdout' = Append(out, Line("Assistant:", Last(new).content))
       /\ nextId' = ids + 1
       /\ log' = lg \o w
       /\ step' = 0
       /\ running' = done
       /\ pc' = Route(START, new)
       /\ prompt' = Handed(Route(START, new), new)

\* an except block that drops the turn and reads the next line
RaiseReadsOn(store, out, ids, lg, done) ==
    /\ pc' = "input"
    /\ messages' = <<>>
    /\ memory' = store
    /\ stdout' = out
    /\ nextId' = ids
    /\ log' = lg
    /\ step' = 0
    /\ running' = done
    /\ prompt' = <<>>
    /\ UNCHANGED <<inFallback, turns>>

\* an exception leaves graph.stream or input(): the bare except of the chat
\* loop runs the fallback turn; inside the fallback turn nothing catches it
Raise(store, out, ids, lg, done) ==
    IF inFallback
    THEN /\ pc' = "crashed"
         /\ messages' = <<>>
         /\ memory' = store
         /\ stdout' = out
         /\ nextId' = ids
         /\ log' = lg
         /\ step' = 0
         /\ running' = done
         /\ prompt' = <<>>
         /\ UNCHANGED <<inFallback, turns>>
    ELSE /\ StartStream(store, Append(out, Line("User:", FallbackQuestion)), ids, lg, done,
                        FallbackQuestion)
         /\ inFallback' = TRUE
         /\ UNCHANGED turns

\* a superstep ends with no limit on the number of supersteps
AfterStepUnlimited(node, writes, done) ==
    LET w == WithIds(writes, nextId)
        new == add_messages(messages, w)
    IN /\ messages' = new
       /\ memory' = Save(memory, ThreadId, new)
       /\ stdout' = Append(stdout, Line("Assistant:", Last(new).content))
       /\ nextId' = nextId + Len(writes)
       /\ log' = log \o w
       /\ step' = step + 1
       /\ running' = done
       /\ pc' = Route(node, new)
       /\ prompt' = Handed(Route(node, new), new)
       /\ UNCHANGED <<inFallback, turns>>

\* a superstep ends: reduce the node's writes into the state, save the
\* checkpoint, stream the values (printed at line 93), then either stop on the
\* recursion limit or trigger the next node
AfterStep(node, writes, done) ==
    LET w == WithIds(writes, nextId)
        new == add_messages(messages, w)
        store == Save(memory, ThreadId, new)
        out == Append(stdout, Line("Assistant:", Last(new).content))
    IN IF step + 1 >= RecursionLimit
       THEN Raise(store, out, nextId + Len(writes), log \o w, done)
       ELSE /\ messages' = new
            /\ memory' = store
            /\ stdout' = out
            /\ nextId' = nextId + Len(writes)
            /\ log' = log \o w
            /\ step' = step + 1
            /\ running' = done
            /\ pc' = Route(node, new)
            /\ prompt' = Handed(Route(node, new), new)
            /\ UNCHANGED <<inFallback, turns>>

Init ==
    /\ pc = "input"
    /\ inFallback = FALSE
    /\ turns = 0
    /\ step = 0
    /\ messages = <<>>
    /\ memory = MemorySaver(EmptyStore)
    /\ running = <<>>
    /\ stdout = <<>>
    /\ nextId = 1
    /\ nextCall = 1
    /\ log = <<>>
    /\ prior = FALSE
    /\ prompt = <<>>

\* lines 98-103: a line is read; a quit word ends the loop, any other line
\* starts a turn
ReadLine(line) ==
    /\ pc = "input"
    /\ IF Lower(line) \in QuitWords
       THEN /\ pc' = "exited"
            /\ stdout' = Append(stdout, Line("Goodbye!", ""))
            /\ UNCHANGED <<inFallback, turns, step, messages, memory, running,
                           nextId, nextCall, log, prior, prompt>>
       ELSE /\ turns < MaxTurns
            /\ Irregular(Load(memory, ThreadId)) + LineWeight(line) <= MaxIrregular
            /\ StartStream(memory, stdout, nextId, log, <<>>, line)
            /\ turns' = turns + 1
            /\ UNCHANGED <<inFallback, nextCall, prior>>

\* line 98 raises (end of input, interrupt)
InputFails ==
    /\ pc = "input"
    /\ Raise(memory, stdout, nextId, log, <<>>)
    /\ UNCHANGED <<nextCall, prior>>

\* chatbot node, line 47: the model answers with an assistant message
ModelResponds(names) ==
    /\ pc = "chatbot"
    /\ Irregular(messages) + Weight(names) <= MaxIrregular
    /\ \/ step < RichSteps
       \/ names = <<SearchTool>>
       \/ step + 1 = RecursionLimit /\ names = <<>>
    /\ LET calls == [i \in DOMAIN names |-> [name |-> names[i], id |-> nextCall + i - 1]]
           text == IF names = <<>> THEN "answer" ELSE "searching"
       IN /\ AfterStep("chatbot", <<AIMessage(text, calls)>>, <<>>)
          /\ nextCall' = nextCall + Len(names)
    /\ UNCHANGED prior

\* chatbot node, line 47: llm_with_tools.invoke raises
ModelFails ==
    /\ pc = "chatbot"
    /\ step < RichSteps
    /\ Raise(memory, stdout, nextId, log, <<>>)
    /\ UNCHANGED <<nextCall, prior>>

\* tools node, line 54: one requested call completes; the node returns when
\* all have, and its messages are appended
ToolCompletes(i, outcome) ==
    /\ pc = "tools"
    /\ LET calls == Last(messages).tool_calls
           done == Append(running, [idx |-> i, outcome |-> outcome])
       IN /\ i \in DOMAIN calls
          /\ \A j \in DOMAIN running : running[j].idx # i
          /\ outcome \in ToolOutcomes(calls[i].name)
          /\ outcome = "error" =>
                /\ Irregular(messages) + Failed(running) < MaxIrregular
                /\ step < RichSteps
          /\ IF Len(done) < Len(calls)
             THEN /\ running' = done
                  /\ UNCHANGED <<pc, inFallback, turns, step, messages, memory,
                                 stdout, nextId, log, prompt>>
             ELSE IF \E j \in DOMAIN done : Escapes(done[j].outcome)
                  THEN Raise(memory, stdout, nextId, log, done)
                  ELSE AfterStep("tools", ToolNodeOutput(calls, done), done)
    /\ UNCHANGED <<nextCall, prior>>

\* tools node: an interrupt arrives while the calls are running
ToolsInterrupted ==
    /\ pc = "tools"
    /\ step < RichSteps
    /\ Raise(memory, stdout, nextId, log, running)
    /\ UNCHANGED <<nextCall, prior>>

\* graph.stream is exhausted: back to line 98, or line 109 in the fallback
TurnReturns ==
    /\ pc = "done"
    /\ pc' = IF inFallback THEN "exited" ELSE "input"
    /\ messages' = <<>>
    /\ UNCHANGED <<inFallback, turns, step, memory, running, stdout, nextId, nextCall,
                   log, prior, prompt>>

\* the program is started again: every module-level statement runs anew
Restart ==
    /\ pc \in {"exited", "crashed"}
    /\ pc' = "input"
    /\ inFallback' = FALSE
    /\ turns' = 0
    /\ step' = 0
    /\ messages' = <<>>
    /\ memory' = MemorySaver(memory)
    /\ running' = <<>>
    /\ stdout' = <<>>
    /\ nextId' = 1
    /\ nextCall' = 1
    /\ log' = <<>>
    /\ prior' = (Load(memory, ThreadId) # <<>>)
    /\ prompt' = <<>>

Next ==
    \/ \E line \in InputLines : ReadLine(line)
    \/ InputFails
    \/ \E names \in ToolCallShapes : ModelResponds(names)
    \/ ModelFails
    \/ \E i \in 1..MaxCalls, outcome \in {"ok", "error", "invalid"} : ToolCompletes(i, outcome)
    \/ ToolsInterrupted
    \/ TurnReturns

Spec == Init /\ [][Next]_vars

NextRuns == Next \/ Restart

SpecRuns == Init /\ [][NextRuns]_vars

----------------------------------------------------------------------------
(* Steps of the loop, as seen on the thread *)

Thread == memory[ThreadId]

\* the first message the step appends to the thread
Returned == memory'[ThreadId][Len(Thread) + 1]

Appends == Len(memory'[ThreadId]) > Len(Thread)

\* the model call in flight returns an assistant message
ModelReturned == pc = "chatbot" /\ Appends /\ Returned.role = "assistant"

\* the model call in flight fails
ModelFailed == pc = "chatbot" /\ ~ModelReturned

\* the last call of the round in flight completes
ToolsFinished ==
    /\ pc = "tools"
    /\ running' # running
    /\ Len(running') = Len(Last(messages).tool_calls)

\* a new graph.stream call has applied its input
TurnStarts ==
    /\ pc' = "chatbot" /\ step' = 0
    /\ log' # log
    /\ Last(log').role = "user"

\* a new graph.stream call starts on the thread as it was persisted
RestartsOn == TurnStarts /\ log' = Append(log, Last(log'))

\* the process ends and is started again
ProcessRestarts == pc \in {"exited", "crashed"} /\ pc' = "input"

\* the step ends the turn with an exception instead of triggering a node
Aborted ==
    IF inFallback THEN pc' = "crashed"
    ELSE inFallback' /\ TurnStarts /\ Last(messages').content = FallbackQuestion

----------------------------------------------------------------------------
(* C1 *)

\* C1 as stated: a response with tool calls is always followed by tool
\* dispatch, and the loop is DONE only after an assistant message without
\* tool calls
C1_Stated ==
    /\ [][ModelReturned /\ Returned.tool_calls # <<>> => pc' = "tools"]_vars
    /\ [](pc = "done" =>
            Last(messages).role = "assistant" /\ Last(messages).tool_calls = <<>>)

\* C1: a response with at least one tool call is followed by tool dispatch,
\* unless it came in the last superstep the recursion limit allows, where the
\* turn is aborted; it is never followed by DONE, and the loop is DONE only
\* when the last message of the thread is an assistant message without tool calls
C1_ToolCallsDispatch ==
    /\ [][ModelReturned /\ Returned.tool_calls # <<>> =>
            /\ pc' # "done"
            /\ IF step + 1 < RecursionLimit
               THEN pc' = "tools" /\ messages' = Append(messages, Returned)
               ELSE Aborted]_vars
    /\ [](pc = "done" =>
            /\ Last(messages).role = "assistant" /\ Last(messages).tool_calls = <<>>
            /\ Last(Thread) = Last(messages))

C1_Witness ==
    /\ pc = "tools"
    /\ Last(messages).role = "assistant"
    /\ Len(Last(messages).tool_calls) >= 1

----------------------------------------------------------------------------
(* C2 *)

\* C2 as stated: a response without tool calls always leads to DONE in one step
C2_Stated ==
    [][ModelReturned /\ Returned.tool_calls = <<>> => pc' = "done"]_vars

\* C2: a response without tool calls leads to DONE in one step, unless it came
\* in the last superstep the recursion limit allows, where the turn is
\* aborted; either way nothing more is invoked in that turn: from DONE the
\* only step is the return to the chat loop, which leaves the thread alone
C2_NoCallsDone ==
    /\ [][ModelReturned /\ Returned.tool_calls = <<>> =>
            IF step + 1 < RecursionLimit
            THEN pc' = "done" /\ memory'[ThreadId] = Append(Thread, Returned)
            ELSE Aborted]_vars
    /\ [][pc = "done" =>
            /\ pc' \in {"input", "exited"}
            /\ UNCHANGED <<memory, nextId, nextCall, running, log>>]_vars

C2_Witness ==
    /\ pc = "done"
    /\ Len(messages) >= 2
    /\ Last(messages).content = "answer"

----------------------------------------------------------------------------
(* C3 *)

\* C3: every step leaves the thread with its previous messages as a prefix,
\* and the thread always holds exactly the messages appended so far, in the
\* order they were appended; failed turns and the fallback turn included
C3_AppendOnly ==
    /\ [][IsPrefix(Thread, memory'[ThreadId])]_vars
    /\ [](Thread = log)

C3_Witness ==
    /\ inFallback /\ turns = 2 /\ pc = "done"
    /\ Len(Thread) >= 5

----------------------------------------------------------------------------
(* C4 *)

\* C4: when the last of the k calls of a round completes, exactly k tool
\* messages are appended, the i-th answering the i-th request, in whatever
\* order the calls completed
C4_ResultsInRequestOrder ==
    [][ToolsFinished =>
        LET calls == Last(messages).tool_calls
            base == Len(Thread)
        IN /\ Len(calls) >= 1
           /\ Len(memory'[ThreadId]) = base + Len(calls)
           /\ SubSeq(memory'[ThreadId], 1, base) = Thread
           /\ \A i \in DOMAIN calls :
                /\ memory'[ThreadId][base + i].role = "tool"
                /\ memory'[ThreadId][base + i].tool_call_id = calls[i].id]_vars

\* a round of two calls whose second call completed first has been appended
C4_Witness ==
    /\ pc = "chatbot"
    /\ Len(running) = 2 /\ running[1].idx = 2
    /\ Len(messages) >= 3
    /\ Last(messages).role = "tool" /\ messages[Len(messages) - 1].role = "tool"
    /\ messages[Len(messages) - 2].tool_calls[1].id = messages[Len(messages) - 1].tool_call_id
    /\ messages[Len(messages) - 2].tool_calls[2].id = Last(messages).tool_call_id

----------------------------------------------------------------------------
(* C5 *)

\* C5: a round that requests an unregistered tool name ends like any other:
\* the request is answered by an error-bearing tool message, the turn goes on
\* and the model is awaited next
C5_UnknownToolAnswered ==
    [][ToolsFinished =>
        LET calls == Last(messages).tool_calls
            base == Len(Thread)
        IN (\E i \in DOMAIN calls : calls[i].name \notin tools) =>
            /\ Len(memory'[ThreadId]) = base + Len(calls)
            /\ \A i \in DOMAIN calls : calls[i].name \notin tools =>
                /\ memory'[ThreadId][base + i].role = "tool"
                /\ memory'[ThreadId][base + i].status = "error"
                /\ memory'[ThreadId][base + i].content = InvalidTool
                /\ memory'[ThreadId][base + i].tool_call_id = calls[i].id
            /\ pc' = "chatbot" /\ step' = step + 1
            /\ inFallback' = inFallback /\ turns' = turns]_vars

C5_Witness ==
    /\ pc = "chatbot"
    /\ messages # <<>>
    /\ Last(messages).content = InvalidTool
    /\ Last(messages).status = "error"

----------------------------------------------------------------------------
(* C6 *)

\* C6: a call of the registered tool that raises is answered by an
\* error-bearing tool message; the turn goes on to the model, and the except
\* block of the chat loop is not entered
C6_ToolFailureAnswered ==
    [][ToolsFinished =>
        LET calls == Last(messages).tool_calls
            base == Len(Thread)
        IN (\E j \in DOMAIN running' : running'[j].outcome = "error") =>
            /\ Len(memory'[ThreadId]) = base + Len(calls)
            /\ \A j \in DOMAIN running' : running'[j].outcome = "error" =>
                LET m == memory'[ThreadId][base + running'[j].idx]
                IN /\ m.role = "tool" /\ m.status = "error" /\ m.content = ExecError
                   /\ m.tool_call_id = calls[running'[j].idx].id
            /\ pc' = "chatbot" /\ step' = step + 1
            /\ inFallback' = inFallback
            /\ stdout' = Append(stdout, Line("Assistant:", Last(memory'[ThreadId]).content))]_vars

C6_Witness ==
    /\ pc = "chatbot"
    /\ ~inFallback
    /\ messages # <<>>
    /\ \E i \in DOMAIN messages : messages[i].content = ExecError /\ messages[i].status = "error"
    /\ Last(messages).role = "tool"

----------------------------------------------------------------------------
(* C7 *)

\* C7 as stated: a failing model call appends nothing to the thread and hands
\* the turn back to the caller, who may retry it
C7_Stated ==
    [][ModelFailed => memory' = memory /\ pc' = "input"]_vars

----------------------------------------------------------------------------
(* C8 *)

\* C8 as stated: what was appended before the process exited is loaded again
\* when the process is started again
C8_Stated ==
    [][ProcessRestarts => memory'[ThreadId] = Thread]_vars

\* C8: the checkpointer keeps a thread for the life of the process: every
\* turn starts from all the messages appended since the process started,
\* and a process that is started again finds the thread empty
C8_ProcessLifetime ==
    /\ [][ProcessRestarts => memory'[ThreadId] = <<>>]_vars
    /\ [][RestartsOn => /\ Len(messages') = Len(log) + 1
                        /\ SubSeq(messages', 1, Len(log)) = log]_vars
    /\ [](pc = "input" /\ turns = 0 => Thread = <<>>)

C8_Witness ==
    /\ prior
    /\ pc = "input" /\ turns = 0
    /\ Thread = <<>>

----------------------------------------------------------------------------
(* C9 *)

----------------------------------------------------------------------------
(* C10 *)

\* C10 as stated: every line the turn prints is the content of a final
\* assistant message
C10_Stated ==
    \A i \in DOMAIN stdout :
        stdout[i].label = "Assistant:" => stdout[i].content = "answer"

----------------------------------------------------------------------------
(* C11 *)

\* the messages of a turn after its user message: rounds of one assistant
\* message with requests followed by one tool message per request, in request
\* order, then one assistant message without requests
RECURSIVE IsRounds(_)
IsRounds(s) ==
    /\ s # <<>>
    /\ s[1].role = "assistant"
    /\ LET k == Len(s[1].tool_calls)
       IN IF k = 0 THEN Len(s) = 1
          ELSE /\ Len(s) >= k + 2
               /\ \A i \in 1..k :
                    s[1 + i].role = "tool" /\ s[1 + i].tool_call_id = s[1].tool_calls[i].id
               /\ IsRounds(SubSeq(s, k + 2, Len(s)))

Users(msgs) == {i \in DOMAIN msgs : msgs[i].role = "user"}

Rounds(msgs) == {i \in DOMAIN msgs : msgs[i].role = "assistant" /\ msgs[i].tool_calls # <<>>}

\* C11: when a turn that started on an empty thread is complete, the thread is
\* one user message, then per round one assistant message with requests
\* followed by its tool messages, then one assistant message without
\* requests; r rounds with n requests in all leave 2 + r + n messages, so one
\* round of one request leaves exactly 4
C11_TurnShape ==
    pc = "done" /\ Cardinality(Users(Thread)) = 1 =>
        /\ Thread[1].role = "user"
        /\ IsRounds(Tail(Thread))
        /\ Len(Thread) = 2 + Cardinality(Rounds(Thread)) + Cardinality(Calls(Thread))
        /\ messages = Thread

C11_Witness ==
    /\ pc = "done" /\ turns = 1 /\ ~inFallback
    /\ Len(Thread) = 4
    /\ Thread[1].role = "user" /\ Thread[1].content = "hi"
    /\ Thread[2].role = "assistant" /\ Len(Thread[2].tool_calls) = 1
    /\ Thread[3].role = "tool" /\ Thread[3].tool_call_id = Thread[2].tool_calls[1].id
    /\ Thread[4].role = "assistant" /\ Thread[4].tool_calls = <<>>

----------------------------------------------------------------------------
(* C12 *)

\* the lines of InputLines that spell quit, exit or q in some letter case
QuitLines == {"q", "Q", "quit", "QUIT", "Exit", "eXiT"}

\* C12: reading a line that is quit, exit or q in any letter case ends the
\* loop normally without starting a turn: the thread, the ids and the call
\* counter stay as they are, only the farewell is printed, and nothing
\* follows; reading any other line starts exactly one turn, which appends to
\* the thread one user message with that line as its content and awaits the
\* model
C12_QuitOrTurn ==
    /\ [][\A line \in InputLines : ReadLine(line) =>
            IF line \in QuitLines
            THEN /\ pc' = "exited"
                 /\ UNCHANGED <<memory, messages, turns, step, running, nextId, nextCall,
                                log, inFallback>>
                 /\ stdout' = Append(stdout, Line("Goodbye!", ""))
            ELSE /\ pc' = "chatbot" /\ step' = 0
                 /\ turns' = turns + 1
                 /\ Len(memory'[ThreadId]) = Len(Thread) + 1
                 /\ SubSeq(memory'[ThreadId], 1, Len(Thread)) = Thread
                 /\ Last(memory'[ThreadId]).role = "user"
                 /\ Last(memory'[ThreadId]).content = line
                 /\ messages' = memory'[ThreadId]
                 /\ UNCHANGED <<nextCall, inFallback>>]_vars
    /\ [][pc # "exited"]_vars

\* the loop was left by a quit word after a turn started from a line that
\* only begins with one
C12_Witness ==
    /\ pc = "exited" /\ ~inFallback
    /\ turns = 1
    /\ Thread # <<>> /\ Thread[1].content = "quit "
    /\ Last(stdout).label = "Goodbye!"

----------------------------------------------------------------------------
(* C13 *)

\* the rounds of the turn in progress: the assistant messages with requests
\* after the last user message
RoundsInTurn(msgs) ==
    Cardinality({i \in Rounds(msgs) : \A u \in Users(msgs) : u < i})

\* the most rounds whose tool results a turn can still hand to the model
MaxRounds == (RecursionLimit - 1) \div 2

\* C13 as stated: whenever the model requests a tool the tools are dispatched
\* next, and when they are done the model is awaited again in the same turn,
\* for any number of rounds
C13_Stated ==
    [][/\ ModelReturned /\ Returned.tool_calls # <<>> => pc' = "tools" /\ step' = step + 1
       /\ ToolsFinished => pc' = "chatbot" /\ step' = step + 1]_vars

\* C13: a turn is bounded by the recursion limit of the library: the model is
\* awaited after as many supersteps as twice the rounds so far, fewer than the
\* limit; a model that requests a tool in every response is answered for
\* MaxRounds rounds, its next response is appended and then the turn is
\* ended by an exception; such a turn never reaches DONE
C13_RoundsBounded ==
    /\ [](pc = "chatbot" => step = 2 * RoundsInTurn(messages))
    /\ [](pc = "tools" => step = 2 * RoundsInTurn(messages) - 1)
    /\ [](step < RecursionLimit /\ RoundsInTurn(messages) <= MaxRounds)
    /\ [][ModelReturned /\ Returned.tool_calls # <<>> =>
            /\ pc' # "done"
            /\ RoundsInTurn(messages) < MaxRounds => pc' = "tools" /\ step' = step + 1
            /\ RoundsInTurn(messages) = MaxRounds =>
                /\ Aborted
                /\ memory'[ThreadId][Len(Thread) + 1].tool_calls # <<>>]_vars

\* the first turn was ended after its model had requested a tool in every
\* response, and the fallback turn has begun
C13_Witness ==
    /\ inFallback /\ turns = 1 /\ pc = "chatbot" /\ step = 0
    /\ Last(Thread).content = FallbackQuestion
    /\ Cardinality(Rounds(Thread)) = MaxRounds + 1
    /\ Cardinality(Users(Thread)) = 2
    /\ Thread[Len(Thread) - 1].tool_calls # <<>>

----------------------------------------------------------------------------
(* C14 *)

\* the model or the tools are awaited
Suspended == pc \in {"chatbot", "tools"}

\* the process ends by an exception nothing handled, and is started again
CrashRestarts == pc = "crashed" /\ ProcessRestarts

----------------------------------------------------------------------------
(* C15 *)

\* every request of the messages is answered by the tool messages that follow
\* its assistant message, one per request and in request order
Answered(msgs) ==
    \A i \in Rounds(msgs) :
        /\ Len(msgs) >= i + Len(msgs[i].tool_calls)
        /\ \A j \in DOMAIN msgs[i].tool_calls :
            /\ msgs[i + j].role = "tool"
            /\ msgs[i + j].tool_call_id = msgs[i].tool_calls[j].id

\* the messages of the turn in progress, from its user message on
TurnMessages(msgs) ==
    SubSeq(msgs, CHOOSE u \in Users(msgs) : \A v \in Users(msgs) : v <= u, Len(msgs))

\* C15: the steps of a turn are strictly sequential: while the model is
\* awaited every request of the turn has its tool message in the thread and no
\* call is running; while calls of a round are still running nothing is
\* appended and the model is not awaited; and a call completes only while the
\* tools are awaited, for a request of the last assistant message
C15_Sequential ==
    /\ [](pc = "chatbot" =>
            /\ Last(messages).role \in {"user", "tool"}
            /\ Answered(TurnMessages(messages))
            /\ Last(messages).role = "tool" =>
                Len(running) = Len(messages[Len(messages) - Len(running)].tool_calls))
    /\ [](pc = "tools" =>
            /\ Last(messages).role = "assistant"
            /\ Len(running) < Len(Last(messages).tool_calls)
            /\ Answered(SubSeq(TurnMessages(messages), 1, Len(TurnMessages(messages)) - 1)))
    /\ [][pc = "tools" /\ ~ToolsFinished =>
            \/ pc' = "tools" /\ UNCHANGED <<memory, messages, step, stdout>>
            \/ /\ Aborted
               /\ IsPrefix(Thread, memory'[ThreadId])
               /\ \A i \in Len(Thread) + 1..Len(memory'[ThreadId]) :
                    memory'[ThreadId][i].role = "user"]_vars
    /\ [][running' # running /\ running' # <<>> =>
            /\ pc = "tools"
            /\ running' = Append(running, Last(running'))
            /\ Last(running').idx \in DOMAIN Last(messages).tool_calls]_vars

\* the first of two requested calls has completed, the second is running:
\* nothing has been appended and the model is not awaited
C15_Witness ==
    /\ pc = "tools"
    /\ Len(Last(messages).tool_calls) = 2
    /\ Len(running) = 1
    /\ Thread = messages

----------------------------------------------------------------------------
(* C16 *)

\* the turns of the process started so far, the fallback turn included
TurnsStarted == turns + (IF inFallback THEN 1 ELSE 0)

\* C16: whenever the model is awaited it has been handed every message
\* appended since the process started, in the order of appending: in the n-th
\* turn these are the messages of the turns before it, among them n - 1 user
\* messages, then the n-th user message and what the n-th turn has appended
\* so far; and every call is handed what the call before it was handed, and more
C16_FullHistory ==
    /\ [](pc = "chatbot" =>
            /\ prompt = log
            /\ prompt = Thread
            /\ Cardinality(Users(prompt)) = TurnsStarted
            /\ \A i \in DOMAIN TurnMessages(prompt) :
                    i > 1 => TurnMessages(prompt)[i].role # "user")
    /\ [](pc # "chatbot" => prompt = <<>>)
    /\ [][pc' = "chatbot" =>
            /\ IsPrefix(Thread, prompt')
            /\ Len(prompt') > Len(Thread)]_vars

\* the model is awaited in the second turn, after a round of that turn, and
\* has been handed the messages of both turns
C16_Witness ==
    /\ pc = "chatbot" /\ turns = 2 /\ ~inFallback
    /\ Len(prompt) >= 5
    /\ Last(prompt).role = "tool"
    /\ prompt[1].role = "user" /\ prompt[2].role = "assistant"
    /\ Cardinality(Users(prompt)) = 2

----------------------------------------------------------------------------
(* C17 *)

\* every request of the messages has a tool message with its call id later in
\* the messages, with no user message in between
Matched(msgs) ==
    \A p \in Calls(msgs) :
        \E k \in DOMAIN msgs :
            /\ k > p[1]
            /\ msgs[k].role = "tool"
            /\ msgs[k].tool_call_id = msgs[p[1]].tool_calls[p[2]].id
            /\ \A u \in Users(msgs) : u < p[1] \/ u > k

\* C17 as stated: whenever the model is awaited, every request in the history
\* handed to it has its tool message, also in the fallback turn that follows
\* a turn ended by an exception or an interrupt
C17_Stated == pc = "chatbot" => Matched(prompt)

----------------------------------------------------------------------------
(* C18 *)

\* the step ends a superstep that the recursion limit does not let continue
LimitHit == Suspended /\ Appends /\ step + 1 >= RecursionLimit

\* an exception reaches the chat loop: input() raises, the model call raises,
\* the tools are interrupted, or the recursion limit is hit
Raises == InputFails \/ ModelFails \/ ToolsInterrupted \/ LimitHit

FallbackMessages(msgs) == {i \in DOMAIN msgs : msgs[i].content = FallbackQuestion}

====
